---- MODULE Spec2Model ----
(***************************************************************************)
(* A model of model.py: the SPADE conditional normalization block, the     *)
(* plain and the conditioned generator, ResnetBlock / GlobalGenerator2 and *)
(* the InceptionV3 wrapper.                                                *)
(*                                                                         *)
(* Tensors are modelled by what the properties need of them: their shape   *)
(* <<N, C, H, W>> (shape arithmetic of the layers), or the chain of layers *)
(* that produced them (data flow).  A shape of <<>> stands for a layer     *)
(* refusing its input (an exception raised in forward).                    *)
(***************************************************************************)
EXTENDS Integers, Sequences, FiniteSets, TLC

VARIABLES
    \* ---- the library build
    verifiesSpatialSize,  \* whether instance norm refuses a single spatial element
    \* ---- Generator / SPADEGenerator forward (shapes)
    gKind,      \* "Generator" | "SPADEGenerator"
    gArgs,      \* constructor arguments
    gIn,        \* shape of the input x
    gShape,     \* shape of `out` at the current position
    gpc,        \* position in forward
    \* ---- construction of SPADE, ResnetBlock, GlobalGenerator2; SPADE.forward
    cClass,     \* class under construction
    cArgs,      \* constructor arguments
    cpc,        \* position in __init__ / forward
    cMult,      \* GlobalGenerator2: local `mult`
    cI,         \* GlobalGenerator2: loop counter
    cUp,        \* GlobalGenerator2: local `n_UPsampling`
    cModel,     \* GlobalGenerator2: local `model`, the layer list
    cRes,       \* outcome of the constructor
    sX,         \* SPADE.forward: shape of x
    sSeg,       \* SPADE.forward: shape of segmap
    sOut,       \* SPADE.forward: shape of the returned tensor, <<>> if it raised
    \* ---- SPADEGenerator.forward (data flow of the condition map)
    fArgs,      \* n_residual_blocks, x, depth as passed, sign
    fRand,      \* random_tensor
    fDepth,     \* local `depth`
    fOut,       \* local `out`: the chain of layers applied so far
    fpc,        \* position in forward
    \* ---- InceptionV3
    iArgs,      \* constructor arguments and the wrapped network's layout
    iStop,      \* local `stop`
    iGrad,      \* requires_grad of every parameter of model_ft
    iMode,      \* model_ft.training
    ipc,        \* position in __init__ / forward
    iX,         \* forward: local `x`, the chain of layers applied so far
    iFeat,      \* forward: feat21
    iAux,       \* forward: aux
    iRet        \* forward: the returned pair

genVars  == <<gKind, gArgs, gIn, gShape, gpc>>
ctorVars == <<cClass, cArgs, cpc, cMult, cI, cUp, cModel, cRes, sX, sSeg, sOut>>
fwdVars  == <<fArgs, fRand, fDepth, fOut, fpc>>
incVars  == <<iArgs, iStop, iGrad, iMode, ipc, iX, iFeat, iAux, iRet>>
vars     == <<verifiesSpatialSize, genVars, ctorVars, fwdVars, incVars>>

(***************************************************************************)
(* Bounds of the model.                                                    *)
(***************************************************************************)
MaxDim    == 12   \* input height and width of the generators: 1..MaxDim
MaxRes    == 2    \* n_residual_blocks: 0..MaxRes
MaxNc     == 2    \* channel counts given to constructors: 1..MaxNc
MaxKs     == 11   \* kernel size written into a SPADE config string: 1..MaxKs
MaxHW     == 3    \* SPADE.forward: height and width of x: 1..MaxHW
MaxSeg    == 2    \* SPADE.forward: height and width of segmap: 1..MaxSeg
MaxBatch  == 2    \* batch size: 1..MaxBatch
MaxNgf    == 2    \* GlobalGenerator2 ngf: 1..MaxNgf
MaxDown   == 4    \* GlobalGenerator2 n_downsampling: 0..MaxDown
MaxBlocks == 2    \* GlobalGenerator2 n_blocks: -1..MaxBlocks
MaxUp     == 2    \* GlobalGenerator2 n_UPsampling: -1..MaxUp
MaxVal    == 1    \* values of a condition map: -MaxVal..MaxVal
MaxSign   == 3    \* SPADEGenerator.forward sign: 0..MaxSign
RandLevels == 4   \* torch.rand draws q / RandLevels, q in 0..RandLevels-1
MaxMask   == 1    \* dropout masks: 0..MaxMask

(***************************************************************************)
(* Text.  A string is the sequence of its characters.                      *)
(***************************************************************************)
DigitChars == <<"0", "1", "2", "3", "4", "5", "6", "7", "8", "9">>

IsDigit(c) == \E d \in 1..10 : DigitChars[d] = c

\* int() of a one-digit string
DigitValue(c) == (CHOOSE d \in 1..10 : DigitChars[d] = c) - 1

\* str(k) for k >= 0
RECURSIVE Decimal(_)
Decimal(k) ==
    IF k < 10 THEN <<DigitChars[k + 1]>>
    ELSE Decimal(k \div 10) \o <<DigitChars[(k % 10) + 1]>>

W_spade     == <<"s", "p", "a", "d", "e">>
W_instance  == <<"i", "n", "s", "t", "a", "n", "c", "e">>
W_batch     == <<"b", "a", "t", "c", "h">>
W_syncbatch == <<"s", "y", "n", "c">> \o W_batch
W_foo       == <<"f", "o", "o">>
W_in5tance  == <<"i", "n", "5", "t", "a", "n", "c", "e">>
W_9spadebatch == <<"9">> \o W_spade \o W_batch

StartsWith(s, w) == Len(s) >= Len(w) /\ SubSeq(s, 1, Len(w)) = w

(***************************************************************************)
(* Shapes of the library layers (torch.nn), output height/width as the     *)
(* layers compute them.  Refused == <<>> is a layer raising.               *)
(***************************************************************************)
Refused == <<>>

Shape(n, c, h, w) == <<n, c, h, w>>

\* nn.Conv2d(cin, cout, k, stride, padding) applied to s
Conv2d(s, cin, cout, k, stride, p) ==
    IF s = Refused THEN Refused
    ELSE IF s[2] # cin \/ s[3] + 2 * p < k \/ s[4] + 2 * p < k THEN Refused
    ELSE Shape(s[1], cout, ((s[3] + 2 * p - k) \div stride) + 1,
                           ((s[4] + 2 * p - k) \div stride) + 1)

\* nn.ConvTranspose2d(cin, cout, k, stride, padding, output_padding) applied to s
ConvTranspose2d(s, cin, cout, k, stride, p, op) ==
    IF s = Refused THEN Refused
    ELSE IF s[2] # cin THEN Refused
    ELSE Shape(s[1], cout, (s[3] - 1) * stride - 2 * p + k + op,
                           (s[4] - 1) * stride - 2 * p + k + op)

\* nn.ReflectionPad2d(p): the padding must be smaller than the padded dimension
ReflectionPad2d(s, p) ==
    IF s = Refused THEN Refused
    ELSE IF p >= s[3] \/ p >= s[4] THEN Refused
    ELSE Shape(s[1], s[2], s[3] + 2 * p, s[4] + 2 * p)

\* nn.InstanceNorm2d (no running statistics, so input statistics in every mode):
\* library builds that verify the spatial size refuse a single spatial element,
\* the others normalize it
InstanceNorm2d(s) ==
    IF s = Refused THEN Refused
    ELSE IF verifiesSpatialSize /\ s[3] * s[4] <= 1 THEN Refused
    ELSE s

\* nn.BatchNorm2d(c, affine=False): the running statistics have c channels; in
\* training mode it needs more than one value per channel
BatchNorm2d(s, c, training) ==
    IF s = Refused THEN Refused
    ELSE IF s[2] # c THEN Refused
    ELSE IF training /\ s[1] * s[3] * s[4] <= 1 THEN Refused
    ELSE s

\* F.interpolate(s, size=(h, w), mode='nearest')
Interpolate(s, h, w) ==
    IF s = Refused THEN Refused ELSE Shape(s[1], s[2], h, w)

BroadcastDim(a, b) == IF a = b THEN a ELSE IF a = 1 THEN b ELSE IF b = 1 THEN a ELSE 0

\* shape of an elementwise a * b or a + b (broadcasting)
Broadcast(a, b) ==
    IF a = Refused \/ b = Refused THEN Refused
    ELSE IF \E d \in 1..4 : BroadcastDim(a[d], b[d]) = 0 THEN Refused
    ELSE [d \in 1..4 |-> BroadcastDim(a[d], b[d])]

(***************************************************************************)
(* SPADE                                                                   *)
(***************************************************************************)
nhidden == 128

\* re.search('spade(\D+)(\d)x\d', s) tried at position i: 'spade', then the
\* non-digits up to the first digit (at least one), then that digit, 'x', a digit.
FirstDigitFrom(s, i) ==
    IF \E j \in i..Len(s) : IsDigit(s[j])
    THEN CHOOSE j \in i..Len(s) : IsDigit(s[j]) /\ \A m \in i..(j - 1) : ~IsDigit(s[m])
    ELSE 0

MatchesAt(s, i) ==
    /\ i + 4 <= Len(s)
    /\ SubSeq(s, i, i + 4) = W_spade
    /\ LET j == FirstDigitFrom(s, i + 5)
       IN /\ j > i + 5
          /\ j + 2 <= Len(s)
          /\ s[j + 1] = "x"
          /\ IsDigit(s[j + 2])

\* the match object of re.search: its two groups, or matched = FALSE for None
ReSearch(s) ==
    IF \E i \in 1..Len(s) : MatchesAt(s, i)
    THEN LET i == CHOOSE i \in 1..Len(s) :
                      MatchesAt(s, i) /\ \A m \in 1..(i - 1) : ~MatchesAt(s, m)
             j == FirstDigitFrom(s, i + 5)
         IN [matched |-> TRUE, group1 |-> SubSeq(s, i + 5, j - 1), group2 |-> s[j]]
    ELSE [matched |-> FALSE, group1 |-> <<>>, group2 |-> "0"]

\* a constructor raising `kind`; `value` is the offending value its message names
Raised(kind, value) == [status |-> kind, value |-> value, obj |-> <<>>]

\* a constructor returning the object `obj`
Built(obj) == [status |-> "ok", value |-> <<>>, obj |-> obj]

\* mutant: the padding of a 3x3 kernel, whatever ks
SpadePadding_One(ks) == 1

\* pw = ks // 2
SpadePadding(ks) == ks \div 2

\* mutant: no assert on the prefix
SPADEInit_NoAssert(config_text, norm_nc, label_nc) ==
    LET parsed == ReSearch(config_text)
    IN IF ~parsed.matched THEN Raised("AttributeError", <<>>)
       ELSE IF parsed.group1 \notin {W_instance, W_batch}
            THEN Raised("ValueError", parsed.group1)
       ELSE Built([norm |-> parsed.group1,
                   ks |-> DigitValue(parsed.group2),
                   pw |-> SpadePadding(DigitValue(parsed.group2)),
                   norm_nc |-> norm_nc, label_nc |-> label_nc])

\* SPADE.__init__(config_text, norm_nc, label_nc)
SPADEInit(config_text, norm_nc, label_nc) ==
    IF ~StartsWith(config_text, W_spade) THEN Raised("AssertionError", <<>>)
    ELSE LET parsed == ReSearch(config_text)
         IN IF ~parsed.matched THEN Raised("AttributeError", <<>>)
            ELSE IF parsed.group1 \notin {W_instance, W_batch}
                 THEN Raised("ValueError", parsed.group1)
            ELSE Built([norm |-> parsed.group1,
                        ks |-> DigitValue(parsed.group2),
                        pw |-> SpadePadding(DigitValue(parsed.group2)),
                        norm_nc |-> norm_nc, label_nc |-> label_nc])

\* self.param_free_norm(x)
ParamFreeNorm(m, x, training) ==
    IF m.norm = W_instance THEN InstanceNorm2d(x) ELSE BatchNorm2d(x, m.norm_nc, training)

\* SPADE.forward(x, segmap): the shape of the returned tensor
SPADEForward(m, x, segmap, training) ==
    IF x = Refused THEN Refused
    ELSE
    LET normalized == ParamFreeNorm(m, x, training)
        resized    == Interpolate(segmap, x[3], x[4])
        actv       == Conv2d(resized, m.label_nc, nhidden, m.ks, 1, m.pw)
        gamma      == Conv2d(actv, nhidden, m.norm_nc, m.ks, 1, m.pw)
        beta       == Conv2d(actv, nhidden, m.norm_nc, m.ks, 1, m.pw)
    IN Broadcast(Broadcast(normalized, gamma), beta)

(***************************************************************************)
(* Generator and SPADEGenerator: forward, on shapes                        *)
(***************************************************************************)
LabelNc == 3

W_spadeinstance3x3 == W_spade \o W_instance \o <<"3", "x", "3">>

\* SPADE("spadeinstance3x3", c, 3) as built inside the conditioned generator
InnerSpade(c) == SPADEInit(W_spadeinstance3x3, c, LabelNc).obj

\* model0: ReflectionPad2d(3), Conv2d(input_nc, 64, 7), norm_layer(64), ReLU
StemShape(s, input_nc) ==
    InstanceNorm2d(Conv2d(ReflectionPad2d(s, 3), input_nc, 64, 7, 1, 0))

\* one stage of model1: Conv2d(c, 2c, 3, stride=2, padding=1), norm_layer, ReLU
DownStage(s, c) == InstanceNorm2d(Conv2d(s, c, 2 * c, 3, 2, 1))

\* model1: the two downsampling stages, 64 -> 128 -> 256
DownShape(s) == DownStage(DownStage(s, 64), 128)

\* ResidualBlock.forward: x + conv_block(x)
ResidualBlock(s, c) ==
    LET a == InstanceNorm2d(Conv2d(ReflectionPad2d(s, 1), c, c, 3, 1, 0))
        b == InstanceNorm2d(Conv2d(ReflectionPad2d(a, 1), c, c, 3, 1, 0))
    IN Broadcast(s, b)

\* SPADEResidualBlock.forward(x, depth)
SPADEResidualBlock(s, c, depth) ==
    LET a == SPADEForward(InnerSpade(c), Conv2d(ReflectionPad2d(s, 1), c, c, 3, 1, 0),
                          depth, TRUE)
        b == SPADEForward(InnerSpade(c), Conv2d(ReflectionPad2d(a, 1), c, c, 3, 1, 0),
                          depth, TRUE)
    IN Broadcast(s, b)

\* model2: n residual blocks at in_features = 256
RECURSIVE BlocksShape(_, _, _, _)
BlocksShape(kind, s, n, depth) ==
    IF n = 0 THEN s
    ELSE BlocksShape(kind,
                     IF kind = "Generator" THEN ResidualBlock(s, 256)
                     ELSE SPADEResidualBlock(s, 256, depth),
                     n - 1, depth)

\* mutant: no output_padding
UpConv_NoOutputPadding(s, c) == ConvTranspose2d(s, c, c \div 2, 3, 2, 1, 0)

\* the transposed convolution of one stage of model3
UpConv(s, c) == ConvTranspose2d(s, c, c \div 2, 3, 2, 1, 1)

\* one stage of model3: ConvTranspose2d, then norm_layer or SPADE, then ReLU
UpStage(kind, s, c, depth) ==
    IF kind = "Generator" THEN InstanceNorm2d(UpConv(s, c))
    ELSE SPADEForward(InnerSpade(c \div 2), UpConv(s, c), depth, TRUE)

\* model3: the two upsampling stages, 256 -> 128 -> 64
UpShape(kind, s, depth) == UpStage(kind, UpStage(kind, s, 256, depth), 128, depth)

\* model4: ReflectionPad2d(3), Conv2d(64, output_nc, 7), optional Sigmoid
OutputShape(s, output_nc) == Conv2d(ReflectionPad2d(s, 3), 64, output_nc, 7, 1, 0)

\* the condition map handed to SPADEGenerator.forward: 3 channels, the size of x
DepthFor(x) == Shape(x[1], LabelNc, x[3], x[4])

GenIdle ==
    /\ gKind = "none" /\ gArgs = <<>> /\ gIn = Refused /\ gShape = Refused /\ gpc = "idle"

GenInit ==
    /\ verifiesSpatialSize \in BOOLEAN
    /\ gKind \in {"Generator", "SPADEGenerator"}
    /\ gArgs \in [input_nc : 1..MaxNc, output_nc : 1..MaxNc,
                  n_residual_blocks : 0..MaxRes, sigmoid : BOOLEAN]
    /\ \E h \in 1..MaxDim, w \in 1..MaxDim : gIn = Shape(1, gArgs.input_nc, h, w)
    /\ gShape = gIn
    /\ gpc = "model0"

GenStep(at, s, next) ==
    /\ gpc = at
    /\ gShape' = s
    /\ gpc' = IF s = Refused THEN "raised" ELSE next
    /\ UNCHANGED <<verifiesSpatialSize, gKind, gArgs, gIn, ctorVars, fwdVars, incVars>>

\* out = self.model0(x)
GenModel0 == GenStep("model0", StemShape(gShape, gArgs.input_nc), "model1")

\* out = self.model1(out)
GenModel1 == GenStep("model1", DownShape(gShape), "model2")

\* out = self.model2(out)   /   for m in self.model2: out = m(out, depth)
GenModel2 ==
    GenStep("model2",
            BlocksShape(gKind, gShape, gArgs.n_residual_blocks, DepthFor(gIn)), "model3")

\* out = self.model3(out)   /   for m in self.model3: ...
GenModel3 == GenStep("model3", UpShape(gKind, gShape, DepthFor(gIn)), "model4")

\* out = self.model4(out); return out
GenModel4 == GenStep("model4", OutputShape(gShape, gArgs.output_nc), "done")

GenNext == GenModel0 \/ GenModel1 \/ GenModel2 \/ GenModel3 \/ GenModel4

(***************************************************************************)
(* Layer lists, as the constructors build them                             *)
(***************************************************************************)
Layer(type, cin, cout, k, stride, p, op, sub) ==
    [type |-> type, cin |-> cin, cout |-> cout, k |-> k, stride |-> stride,
     p |-> p, op |-> op, sub |-> sub]

L_Conv2d(cin, cout, k, p) == Layer("Conv2d", cin, cout, k, 1, p, 0, <<>>)
L_ConvTranspose2d(cin, cout, k, stride, p, op) ==
    Layer("ConvTranspose2d", cin, cout, k, stride, p, op, <<>>)
L_Pad(type, p)   == Layer(type, 0, 0, 0, 0, p, 0, <<>>)
L_Norm(c)        == Layer("norm_layer", c, c, 0, 0, 0, 0, <<>>)
L_Plain(type)    == Layer(type, 0, 0, 0, 0, 0, 0, <<>>)
L_ResnetBlock(dim, conv_block) == Layer("ResnetBlock", dim, dim, 0, 0, 0, 0, conv_block)

PaddingTypes == {"reflect", "replicate", "zero", "circular"}

\* mutant: an unrecognized padding_type falls back to zero padding
PaddingFor_DefaultZero(padding_type) ==
    IF padding_type = "reflect"
    THEN [ok |-> TRUE, layers |-> <<L_Pad("ReflectionPad2d", 1)>>, p |-> 0]
    ELSE IF padding_type = "replicate"
    THEN [ok |-> TRUE, layers |-> <<L_Pad("ReplicationPad2d", 1)>>, p |-> 0]
    ELSE [ok |-> TRUE, layers |-> <<>>, p |-> 1]

\* the padding chain of build_conv_block: the layers added, and p
\*   if 'reflect' ... elif 'replicate' ... elif 'zero': p = 1 ... else: raise
PaddingFor(padding_type) ==
    IF padding_type = "reflect"
    THEN [ok |-> TRUE, layers |-> <<L_Pad("ReflectionPad2d", 1)>>, p |-> 0]
    ELSE IF padding_type = "replicate"
    THEN [ok |-> TRUE, layers |-> <<L_Pad("ReplicationPad2d", 1)>>, p |-> 0]
    ELSE IF padding_type = "zero"
    THEN [ok |-> TRUE, layers |-> <<>>, p |-> 1]
    ELSE [ok |-> FALSE, layers |-> <<>>, p |-> 0]

\* ResnetBlock.build_conv_block, hence ResnetBlock.__init__
ResnetBlockInit(dim, padding_type, use_dropout) ==
    LET first == PaddingFor(padding_type)
        second == PaddingFor(padding_type)
    IN IF ~first.ok THEN Raised("NotImplementedError", padding_type)
       ELSE IF ~second.ok THEN Raised("NotImplementedError", padding_type)
       ELSE Built(first.layers
                  \o <<L_Conv2d(dim, dim, 3, first.p), L_Norm(dim), L_Plain("activation")>>
                  \o (IF use_dropout THEN <<L_Plain("Dropout")>> ELSE <<>>)
                  \o second.layers
                  \o <<L_Conv2d(dim, dim, 3, second.p), L_Norm(dim)>>)

(***************************************************************************)
(* Construction of SPADE, ResnetBlock and GlobalGenerator2; SPADE.forward  *)
(***************************************************************************)
\* the <norm> parts of the config strings tried
NormTexts ==
    {W_instance, W_batch, W_syncbatch, W_foo, <<>>, W_in5tance, W_9spadebatch}

\* prefix<norm><k>x<k2>
ConfigText(prefix, norm, k, k2) == prefix \o norm \o Decimal(k) \o <<"x">> \o Decimal(k2)

ConfigTexts ==
    { ConfigText(prefix, norm, k, IF same THEN k ELSE 1) :
        prefix \in {W_spade, <<>>}, norm \in NormTexts,
        k \in 1..MaxKs, same \in BOOLEAN }

CtorIdle ==
    /\ cClass = "none" /\ cArgs = <<>> /\ cpc = "idle" /\ cMult = 0 /\ cI = 0
    /\ cUp = 0 /\ cModel = <<>> /\ cRes = Raised("none", <<>>)
    /\ sX = Refused /\ sSeg = Refused /\ sOut = Refused

CtorInit ==
    /\ verifiesSpatialSize \in BOOLEAN
    /\ cClass \in {"SPADE", "ResnetBlock", "GlobalGenerator2"}
    /\ \/ /\ cClass = "SPADE"
          /\ cArgs \in [config_text : ConfigTexts, norm_nc : 1..MaxNc,
                        label_nc : {LabelNc}, training : BOOLEAN]
       \/ /\ cClass = "ResnetBlock"
          /\ cArgs \in [dim : 1..MaxNc, padding_type : PaddingTypes,
                        use_dropout : BOOLEAN]
       \/ /\ cClass = "GlobalGenerator2"
          /\ cArgs \in [input_nc : 1..MaxNc, output_nc : {1}, ngf : 1..MaxNgf,
                        n_downsampling : 0..MaxDown, n_blocks : (-1)..MaxBlocks,
                        padding_type : PaddingTypes, use_sig : BOOLEAN,
                        n_UPsampling : (-1)..MaxUp]
    /\ cpc = "init" /\ cMult = 0 /\ cI = 0 /\ cUp = 0 /\ cModel = <<>>
    /\ cRes = Raised("none", <<>>)
    /\ sX = Refused /\ sSeg = Refused /\ sOut = Refused

CtorStay == UNCHANGED <<verifiesSpatialSize, cClass, cArgs, genVars, fwdVars, incVars>>

\* SPADE(config_text, norm_nc, label_nc)
SpadeConstruct ==
    /\ cClass = "SPADE" /\ cpc = "init"
    /\ cRes' = SPADEInit(cArgs.config_text, cArgs.norm_nc, cArgs.label_nc)
    /\ cpc' = IF cRes'.status = "ok" THEN "built" ELSE "failed"
    /\ UNCHANGED <<cMult, cI, cUp, cModel, sX, sSeg, sOut>>
    /\ CtorStay

\* SPADE.forward(x, segmap) on a built block: x has norm_nc channels, segmap has
\* label_nc channels and the batch size of x
SpadeForward ==
    /\ cClass = "SPADE" /\ cpc = "built"
    /\ \E n \in 1..MaxBatch, h \in 1..MaxHW, w \in 1..MaxHW,
          sh \in 1..MaxSeg, sw \in 1..MaxSeg :
          /\ sX' = Shape(n, cArgs.norm_nc, h, w)
          /\ sSeg' = Shape(n, cArgs.label_nc, sh, sw)
    /\ sOut' = SPADEForward(cRes.obj, sX', sSeg', cArgs.training)
    /\ cpc' = IF sOut' = Refused THEN "raised" ELSE "returned"
    /\ UNCHANGED <<cMult, cI, cUp, cModel, cRes>>
    /\ CtorStay

\* ResnetBlock(dim, padding_type, norm_layer, activation, use_dropout)
ResnetBlockConstruct ==
    /\ cClass = "ResnetBlock" /\ cpc = "init"
    /\ cRes' = ResnetBlockInit(cArgs.dim, cArgs.padding_type, cArgs.use_dropout)
    /\ cpc' = IF cRes'.status = "ok" THEN "built" ELSE "failed"
    /\ UNCHANGED <<cMult, cI, cUp, cModel, sX, sSeg, sOut>>
    /\ CtorStay

\* the stem of GlobalGenerator2 for a multiplier
StemLayers(input_nc, ngf, mult) ==
    <<L_Pad("ReflectionPad2d", 4), L_Conv2d(input_nc, ngf * mult, 7, 0),
      L_Norm(ngf * mult), L_Plain("activation")>>

\* GlobalGenerator2.__init__: assert(n_blocks >= 0); mult = 8; model = [stem]
GGStart ==
    /\ cClass = "GlobalGenerator2" /\ cpc = "init"
    /\ IF cArgs.n_blocks >= 0
       THEN /\ cMult' = 8
            /\ cModel' = StemLayers(cArgs.input_nc, cArgs.ngf, 8)
            /\ cpc' = "downsample"
            /\ UNCHANGED cRes
       ELSE /\ cRes' = Raised("AssertionError", <<>>)
            /\ cpc' = "failed"
            /\ UNCHANGED <<cMult, cModel>>
    /\ UNCHANGED <<cI, cUp, sX, sSeg, sOut>>
    /\ CtorStay

\* the layers one 'downsample' iteration adds for the current mult
DownLayers(ngf, mult) ==
    <<L_ConvTranspose2d(ngf * mult, (ngf * mult) \div 2, 4, 2, 1, 0),
      L_Norm((ngf * mult) \div 2), L_Plain("activation")>>

\* one iteration of: for i in range(n_downsampling)
GGDownsample ==
    /\ cClass = "GlobalGenerator2" /\ cpc = "downsample"
    /\ cI < cArgs.n_downsampling
    /\ cModel' = cModel \o DownLayers(cArgs.ngf, cMult)
    /\ cMult' = cMult \div 2
    /\ cI' = cI + 1
    /\ UNCHANGED <<cpc, cUp, cRes, sX, sSeg, sOut>>
    /\ CtorStay

\* n_UPsampling as the upsample loop uses it
UpsamplingCount(n_UPsampling, n_downsampling) ==
    IF n_UPsampling <= 0 THEN n_downsampling ELSE n_UPsampling

\* end of the downsample loop; if n_UPsampling <= 0: n_UPsampling = n_downsampling
GGSetUpsampling ==
    /\ cClass = "GlobalGenerator2" /\ cpc = "downsample"
    /\ cI >= cArgs.n_downsampling
    /\ cUp' = UpsamplingCount(cArgs.n_UPsampling, cArgs.n_downsampling)
    /\ cI' = 0
    /\ cpc' = "blocks"
    /\ UNCHANGED <<cMult, cModel, cRes, sX, sSeg, sOut>>
    /\ CtorStay

\* one iteration of: for i in range(n_blocks): model += [ResnetBlock(ngf * mult, ...)]
GGBlock ==
    /\ cClass = "GlobalGenerator2" /\ cpc = "blocks"
    /\ cI < cArgs.n_blocks
    /\ LET block == ResnetBlockInit(cArgs.ngf * cMult, cArgs.padding_type, FALSE)
       IN IF block.status = "ok"
          THEN /\ cModel' = Append(cModel, L_ResnetBlock(cArgs.ngf * cMult, block.obj))
               /\ cI' = cI + 1
               /\ UNCHANGED <<cpc, cRes>>
          ELSE /\ cRes' = block
               /\ cpc' = "failed"
               /\ UNCHANGED <<cModel, cI>>
    /\ UNCHANGED <<cMult, cUp, sX, sSeg, sOut>>
    /\ CtorStay

\* end of the resnet-block loop
GGBlocksDone ==
    /\ cClass = "GlobalGenerator2" /\ cpc = "blocks"
    /\ cI >= cArgs.n_blocks
    /\ cI' = 0
    /\ cpc' = "upsample"
    /\ UNCHANGED <<cMult, cUp, cModel, cRes, sX, sSeg, sOut>>
    /\ CtorStay

\* mutant: no floor of 1
NextMult_NoFloor(mult) == mult \div 2

\* next_mult = mult // 2; if next_mult == 0: next_mult = 1
NextMult(mult) == IF mult \div 2 = 0 THEN 1 ELSE mult \div 2

\* mult as the ConvTranspose2d of an upsample iteration reads it
\*   if next_mult == 0: ... mult = 1
UpMult(mult) == IF mult \div 2 = 0 THEN 1 ELSE mult

\* the layers one upsample iteration adds
UpLayers(ngf, mult) ==
    <<L_ConvTranspose2d(ngf * UpMult(mult), ngf * NextMult(mult), 3, 2, 1, 1),
      L_Norm(ngf * NextMult(mult)), L_Plain("activation")>>

\* one iteration of: for i in range(n_UPsampling)
GGUpsample ==
    /\ cClass = "GlobalGenerator2" /\ cpc = "upsample"
    /\ cI < cUp
    /\ cModel' = cModel \o UpLayers(cArgs.ngf, cMult)
    /\ cMult' = NextMult(cMult)
    /\ cI' = cI + 1
    /\ UNCHANGED <<cpc, cUp, cRes, sX, sSeg, sOut>>
    /\ CtorStay

\* the output projection
OutputLayers(ngf, output_nc, use_sig) ==
    <<L_Pad("ReflectionPad2d", 3), L_Conv2d(ngf, output_nc, 7, 0),
      L_Plain(IF use_sig THEN "Sigmoid" ELSE "Tanh")>>

\* end of the upsample loop; the output projection; self.model = nn.Sequential(*model)
GGOutput ==
    /\ cClass = "GlobalGenerator2" /\ cpc = "upsample"
    /\ cI >= cUp
    /\ cModel' = cModel \o OutputLayers(cArgs.ngf, cArgs.output_nc, cArgs.use_sig)
    /\ cRes' = Built(cModel')
    /\ cpc' = "built"
    /\ UNCHANGED <<cMult, cI, cUp, sX, sSeg, sOut>>
    /\ CtorStay

CtorNext ==
    \/ SpadeConstruct \/ SpadeForward \/ ResnetBlockConstruct
    \/ GGStart \/ GGDownsample \/ GGSetUpsampling \/ GGBlock \/ GGBlocksDone
    \/ GGUpsample \/ GGOutput

(***************************************************************************)
(* SPADEGenerator.forward: which condition map each stage receives.        *)
(* A tensor is its values, one per batch element; `out` is the chain of    *)
(* the layers applied so far, each with the condition map it was given.    *)
(***************************************************************************)
Entry(op, arg) == [op |-> op, arg |-> arg]

\* tensor * scalar
Scale(t, r) == [b \in DOMAIN t |-> t[b] * r]

\* torch.rand(1) * 2, then floor_(), for the draw q / RandLevels
RandomTensor(q) == (2 * q) \div RandLevels

\* mutant: sign 2 leaves depth as it is
GatedDepth_NoZero(sign, depth, random_tensor) ==
    IF sign = 0 THEN Scale(depth, random_tensor) ELSE depth

\* the if / elif chain on sign: the value of `depth` after it
GatedDepth(sign, depth, random_tensor) ==
    IF sign = 0 THEN Scale(depth, random_tensor)
    ELSE IF sign = 1 THEN depth
    ELSE IF sign = 2 THEN Scale(depth, 0)
    ELSE depth

\* SPADEResidualBlock.forward(x, depth): both SPADE layers receive depth
ResidualFlow(out, depth) ==
    out \o <<Entry("conv_block0", <<>>), Entry("norm_layer0", depth),
             Entry("conv_block1", <<>>), Entry("norm_layer1", depth),
             Entry("add", <<>>)>>

\* the modules of self.model3, in order
Model3 == <<"ConvTranspose2d", "SPADE", "ReLU", "ConvTranspose2d", "SPADE", "ReLU">>

\* the body of: for m in self.model3
Model3Flow(out, m, depth) ==
    IF m = "SPADE" THEN Append(out, Entry(m, depth)) ELSE Append(out, Entry(m, <<>>))

FwdIdle ==
    /\ fArgs = <<>> /\ fRand = 0 /\ fDepth = <<>> /\ fOut = <<>> /\ fpc = "idle"

FwdInit ==
    /\ verifiesSpatialSize = FALSE
    /\ fArgs \in [n_residual_blocks : 0..MaxRes, x : {"x1", "x2"},
                  depth : [1..MaxBatch -> (-MaxVal)..MaxVal], sign : 0..MaxSign]
    /\ fRand = 0
    /\ fDepth = fArgs.depth
    /\ fOut = <<Entry("input", <<fArgs.x>>)>>
    /\ fpc = "gate"

FwdStay == UNCHANGED <<verifiesSpatialSize, fArgs, genVars, ctorVars, incVars>>

\* random_tensor = torch.rand(1) * 2; floor_(); the if / elif chain on sign
FwdGate ==
    /\ fpc = "gate"
    /\ \E q \in 0..(RandLevels - 1) : fRand' = RandomTensor(q)
    /\ fDepth' = GatedDepth(fArgs.sign, fDepth, fRand')
    /\ fpc' = "model0"
    /\ UNCHANGED fOut
    /\ FwdStay

\* out = self.model0(x)
FwdModel0 ==
    /\ fpc = "model0"
    /\ fOut' = Append(fOut, Entry("model0", <<>>))
    /\ fpc' = "model1"
    /\ UNCHANGED <<fRand, fDepth>>
    /\ FwdStay

\* out = self.model1(out)
FwdModel1 ==
    /\ fpc = "model1"
    /\ fOut' = Append(fOut, Entry("model1", <<>>))
    /\ fpc' = "model2"
    /\ UNCHANGED <<fRand, fDepth>>
    /\ FwdStay

BlocksDone(out) == Cardinality({i \in DOMAIN out : out[i].op = "add"})

\* one iteration of: for m in self.model2: out = m(out, depth)
FwdBlock ==
    /\ fpc = "model2"
    /\ BlocksDone(fOut) < fArgs.n_residual_blocks
    /\ fOut' = ResidualFlow(fOut, fDepth)
    /\ UNCHANGED <<fRand, fDepth, fpc>>
    /\ FwdStay

\* end of the loop over self.model2
FwdBlocksDone ==
    /\ fpc = "model2"
    /\ BlocksDone(fOut) >= fArgs.n_residual_blocks
    /\ fpc' = "model3"
    /\ UNCHANGED <<fRand, fDepth, fOut>>
    /\ FwdStay

Model3Done(out) ==
    Cardinality({i \in DOMAIN out : out[i].op \in {"ConvTranspose2d", "SPADE", "ReLU"}})

\* one iteration of: for m in self.model3
FwdModel3 ==
    /\ fpc = "model3"
    /\ Model3Done(fOut) < Len(Model3)
    /\ fOut' = Model3Flow(fOut, Model3[Model3Done(fOut) + 1], fDepth)
    /\ UNCHANGED <<fRand, fDepth, fpc>>
    /\ FwdStay

\* end of the loop over self.model3; out = self.model4(out); return out
FwdModel4 ==
    /\ fpc = "model3"
    /\ Model3Done(fOut) >= Len(Model3)
    /\ fOut' = Append(fOut, Entry("model4", <<>>))
    /\ fpc' = "done"
    /\ UNCHANGED <<fRand, fDepth>>
    /\ FwdStay

FwdNext ==
    \/ FwdGate \/ FwdModel0 \/ FwdModel1 \/ FwdBlock \/ FwdBlocksDone
    \/ FwdModel3 \/ FwdModel4

(***************************************************************************)
(* InceptionV3                                                             *)
(***************************************************************************)
\* children of torchvision's Inception3 in enumeration order: without and
\* with the pooling / dropout modules registered as children
Children(layout) ==
    IF layout = "functional-pooling"
    THEN <<"Conv2d_1a_3x3", "Conv2d_2a_3x3", "Conv2d_2b_3x3", "Conv2d_3b_1x1",
           "Conv2d_4a_3x3", "Mixed_5b", "Mixed_5c", "Mixed_5d", "Mixed_6a",
           "Mixed_6b", "Mixed_6c", "Mixed_6d", "Mixed_6e", "AuxLogits",
           "Mixed_7a", "Mixed_7b", "Mixed_7c", "fc">>
    ELSE <<"Conv2d_1a_3x3", "Conv2d_2a_3x3", "Conv2d_2b_3x3", "maxpool1",
           "Conv2d_3b_1x1", "Conv2d_4a_3x3", "maxpool2", "Mixed_5b", "Mixed_5c",
           "Mixed_5d", "Mixed_6a", "Mixed_6b", "Mixed_6c", "Mixed_6d",
           "Mixed_6e", "AuxLogits", "Mixed_7a", "Mixed_7b", "Mixed_7c",
           "avgpool", "dropout", "fc">>

\* the parameters child.parameters() yields; "AuxLogits" stands for the
\* convolutions of the auxiliary branch, "AuxLogits.fc" for its head
ParametersOf(child) ==
    IF child \in {"maxpool1", "maxpool2", "avgpool", "dropout"} THEN {}
    ELSE IF child = "AuxLogits" THEN {"AuxLogits", "AuxLogits.fc"}
    ELSE {child}

AllParameters(layout) ==
    UNION {ParametersOf(Children(layout)[i]) : i \in DOMAIN Children(layout)}

FreezeCount == 17

\* mutant: stop <= 17
FreezeChild_OffByOne(grad, child, stop) ==
    IF stop <= FreezeCount
    THEN [p \in DOMAIN grad |-> IF p \in ParametersOf(child) THEN FALSE ELSE grad[p]]
    ELSE grad

\* if stop < 17: for param in child.parameters(): param.requires_grad = False
FreezeChild(grad, child, stop) ==
    IF stop < FreezeCount
    THEN [p \in DOMAIN grad |-> IF p \in ParametersOf(child) THEN FALSE ELSE grad[p]]
    ELSE grad

\* AuxLogits.fc = nn.Linear(...); fc = nn.Linear(...): fresh parameters
ReplaceHeads(grad) ==
    [p \in DOMAIN grad |-> IF p \in {"AuxLogits.fc", "fc"} THEN TRUE ELSE grad[p]]

IncIdle ==
    /\ iArgs = <<>> /\ iStop = 0 /\ iGrad = <<>> /\ iMode = "none" /\ ipc = "idle"
    /\ iX = <<>> /\ iFeat = <<>> /\ iAux = <<>> /\ iRet = <<>>

IncInit ==
    /\ verifiesSpatialSize = FALSE
    /\ iArgs \in [isTrain : BOOLEAN, use_aux : BOOLEAN, pretrain : BOOLEAN,
                  freeze : BOOLEAN, every_feat : BOOLEAN,
                  layout : {"functional-pooling", "module-pooling"}]
    /\ iStop = 0
    /\ iGrad = [p \in AllParameters(iArgs.layout) |-> TRUE]
    /\ iMode = "train"
    /\ ipc = "freeze"
    /\ iX = <<>> /\ iFeat = <<>> /\ iAux = <<>> /\ iRet = <<>>

IncStay == UNCHANGED <<verifiesSpatialSize, iArgs, genVars, ctorVars, fwdVars>>

\* one iteration of: for child in self.model_ft.children()  (if freeze and pretrain)
IncFreeze ==
    /\ ipc = "freeze"
    /\ iArgs.freeze /\ iArgs.pretrain
    /\ iStop < Len(Children(iArgs.layout))
    /\ iGrad' = FreezeChild(iGrad, Children(iArgs.layout)[iStop + 1], iStop)
    /\ iStop' = iStop + 1
    /\ UNCHANGED <<iMode, ipc, iX, iFeat, iAux, iRet>>
    /\ IncStay

\* the two heads are replaced; self.model_ft.train() or .eval()
IncHeads ==
    /\ ipc = "freeze"
    /\ ~(iArgs.freeze /\ iArgs.pretrain) \/ iStop >= Len(Children(iArgs.layout))
    /\ iGrad' = ReplaceHeads(iGrad)
    /\ iMode' = IF iArgs.isTrain THEN "train" ELSE "eval"
    /\ ipc' = "constructed"
    /\ UNCHANGED <<iStop, iX, iFeat, iAux, iRet>>
    /\ IncStay

\* the layers forward applies up to Mixed_6b, and from there to Mixed_6e
ToMixed6b ==
    <<"Conv2d_1a_3x3", "Conv2d_2a_3x3", "Conv2d_2b_3x3", "max_pool2d", "Conv2d_3b_1x1",
      "Conv2d_4a_3x3", "max_pool2d", "Mixed_5b", "Mixed_5c", "Mixed_5d", "Mixed_6a",
      "Mixed_6b">>
ToMixed6e == <<"Mixed_6c", "Mixed_6d", "Mixed_6e">>
ToPool    == <<"Mixed_7a", "Mixed_7b", "Mixed_7c", "adaptive_avg_pool2d">>

Through(x, layers) == x \o [i \in DOMAIN layers |-> Entry(layers[i], <<>>)]

\* F.dropout(x, training): a random mask when training, the identity otherwise
Dropout(x, training, mask) ==
    IF training THEN Append(x, Entry("dropout", <<mask>>)) ELSE x

\* forward, through feat21 = x after Mixed_6b
IncFeatures ==
    /\ ipc = "constructed"
    /\ \E x \in {"x1", "x2"} : iX' = Through(<<Entry("input", <<x>>)>>, ToMixed6b)
    /\ iFeat' = iX'
    /\ ipc' = "feat21"
    /\ UNCHANGED <<iStop, iGrad, iMode, iAux, iRet>>
    /\ IncStay

\* aux_defined = self.isTrain and self.use_aux
AuxOf(x, isTrain, use_aux) ==
    IF isTrain /\ use_aux THEN Append(x, Entry("AuxLogits", <<>>)) ELSE <<>>

\* forward, from Mixed_6c to the auxiliary branch
IncAux ==
    /\ ipc = "feat21"
    /\ iX' = Through(iX, ToMixed6e)
    /\ iAux' = AuxOf(iX', iArgs.isTrain, iArgs.use_aux)
    /\ ipc' = "aux"
    /\ UNCHANGED <<iStop, iGrad, iMode, iFeat, iRet>>
    /\ IncStay

\* forward, from Mixed_7a to x = self.model_ft.fc(x)
IncLogits ==
    /\ ipc = "aux"
    /\ \E mask \in 0..MaxMask :
          iX' = Through(Dropout(Through(iX, ToPool), iArgs.isTrain, mask),
                        <<"flatten", "fc">>)
    /\ ipc' = "logits"
    /\ UNCHANGED <<iStop, iGrad, iMode, iFeat, iAux, iRet>>
    /\ IncStay

\* mutant: with every_feat the pooled features are returned in place of the logits
Returned_Features(every_feat, x, feat21, aux) ==
    IF every_feat THEN <<SubSeq(x, 1, Len(x) - 2), feat21>> ELSE <<x, aux>>

\* if self.every_feat: return x, feat21;  return x, aux
Returned(every_feat, x, feat21, aux) ==
    IF every_feat THEN <<x, feat21>> ELSE <<x, aux>>

IncReturn ==
    /\ ipc = "logits"
    /\ iRet' = Returned(iArgs.every_feat, iX, iFeat, iAux)
    /\ ipc' = "returned"
    /\ UNCHANGED <<iStop, iGrad, iMode, iX, iFeat, iAux>>
    /\ IncStay

IncNext == IncFreeze \/ IncHeads \/ IncFeatures \/ IncAux \/ IncLogits \/ IncReturn

(***************************************************************************)
(* Specifications: one per part of the module, and all of them together    *)
(***************************************************************************)
GenStart  == GenInit /\ CtorIdle /\ FwdIdle /\ IncIdle
CtorStart == GenIdle /\ CtorInit /\ FwdIdle /\ IncIdle
FwdStart  == GenIdle /\ CtorIdle /\ FwdInit /\ IncIdle
IncStart  == GenIdle /\ CtorIdle /\ FwdIdle /\ IncInit

GenSpec  == GenStart /\ [][GenNext]_vars
CtorSpec == CtorStart /\ [][CtorNext]_vars
FwdSpec  == FwdStart /\ [][FwdNext]_vars
IncSpec  == IncStart /\ [][IncNext]_vars

Init == GenStart \/ CtorStart \/ FwdStart \/ IncStart

Next == GenNext \/ CtorNext \/ FwdNext \/ IncNext

Spec == Init /\ [][Next]_vars

(***************************************************************************)
(*                              PROPERTIES                                 *)
(***************************************************************************)

\* ------------------------------------------------------------------ C1
GenH == gIn[3]
GenW == gIn[4]
RoundUp4(h) == ((h + 3) \div 4) * 4

\* C1, as stated: whenever forward returns for an even input height and an even
\* input width, the returned tensor has the input's height and width.
C1_EvenSizesPreserved ==
    (gpc = "done" /\ GenH % 2 = 0 /\ GenW % 2 = 0)
        => (gShape[3] = GenH /\ gShape[4] = GenW)

\* C1, amended: forward returns the input's height and width when both are
\* multiples of 4; in general each is rounded up to the next multiple of 4 (the
\* batch size is kept and the channels are output_nc).  Inputs of height and
\* width 8 or more are never refused by a layer.
C1_MultiplesOfFourPreserved ==
    /\ (gpc = "done" /\ GenH % 4 = 0 /\ GenW % 4 = 0)
          => (gShape[3] = GenH /\ gShape[4] = GenW)
    /\ gpc = "done"
          => gShape = <<gIn[1], gArgs.output_nc, RoundUp4(GenH), RoundUp4(GenW)>>
    /\ (gpc # "idle" /\ GenH >= 8 /\ GenW >= 8) => gpc # "raised"

C1_Witness ==
    /\ gpc = "done" /\ gKind = "SPADEGenerator" /\ gArgs.n_residual_blocks = 2
    /\ GenH = 8 /\ GenW = 12 /\ gShape[3] = 8 /\ gShape[4] = 12

\* ------------------------------------------------------------------ C2
\* config strings 'spade<norm><k>x<k>' with norm instance or batch and k odd
OddKernelConfigs ==
    { ConfigText(W_spade, norm, k, k) :
        norm \in {W_instance, W_batch}, k \in {j \in 1..MaxKs : j % 2 = 1} }

SpadeCalled ==
    /\ cClass = "SPADE" /\ cpc \in {"returned", "raised"}
    /\ cArgs.config_text \in OddKernelConfigs

\* x has what every build of the parameter-free normalization accepts: more
\* than one value per channel (instance norm: per example; batch norm: per
\* batch, needed in training mode only)
NormAccepts ==
    IF StartsWith(cArgs.config_text, W_spade \o W_instance)
    THEN sX[3] * sX[4] > 1
    ELSE ~cArgs.training \/ sX[1] * sX[3] * sX[4] > 1

\* C2, as stated: for every x and every condition map, forward of a block built
\* from an odd-kernel config returns a tensor of the shape of x.
C2_EveryInputKeepsShape == SpadeCalled => (cpc = "returned" /\ sOut = sX)

\* C2, amended: for every x with more than one value per channel, and every
\* condition map, forward returns a tensor of exactly the shape of x; whenever
\* forward returns, what it returns has the shape of x.
C2_AcceptedInputKeepsShape ==
    SpadeCalled =>
        /\ NormAccepts => cpc = "returned"
        /\ cpc = "returned" => sOut = sX

C2_Witness ==
    /\ SpadeCalled /\ cpc = "returned" /\ cRes.obj.ks = 5
    /\ sX[3] = 3 /\ sX[4] = 2 /\ sSeg[3] = 1 /\ sSeg[4] = 2 /\ sOut = sX

\* ------------------------------------------------------------------ C3
ConditionedOps == {"norm_layer0", "norm_layer1", "SPADE"}

\* the condition maps the conditioned stages have received so far
ConditionsUsed == {fOut[i].arg : i \in {j \in DOMAIN fOut : fOut[j].op \in ConditionedOps}}

ZeroMap == [b \in 1..MaxBatch |-> 0]

\* the output of the network for input x when every conditioned stage is fed c
RECURSIVE BlocksFed(_, _)
BlocksFed(n, c) ==
    IF n = 0 THEN <<>>
    ELSE BlocksFed(n - 1, c)
         \o <<Entry("conv_block0", <<>>), Entry("norm_layer0", c),
              Entry("conv_block1", <<>>), Entry("norm_layer1", c), Entry("add", <<>>)>>

OutputFed(x, n, c) ==
    <<Entry("input", <<x>>), Entry("model0", <<>>), Entry("model1", <<>>)>>
    \o BlocksFed(n, c)
    \o <<Entry("ConvTranspose2d", <<>>), Entry("SPADE", c), Entry("ReLU", <<>>),
         Entry("ConvTranspose2d", <<>>), Entry("SPADE", c), Entry("ReLU", <<>>),
         Entry("model4", <<>>)>>

\* C3: in one call with sign in {0, 1, 2} every conditioned stage receives the
\* same map: depth times one scalar in {0, 1} (sign 0), depth (sign 1), all zeros
\* (sign 2); every conditioned stage is reached, and the outputs for sign 1 and
\* sign 2 are those of feeding depth, resp. the zero map, whatever was drawn.
C3_OneConditionPerCall ==
    (fpc \notin {"idle", "gate"} /\ fArgs.sign \in {0, 1, 2}) =>
        /\ fRand \in {0, 1}
        /\ ConditionsUsed \subseteq
              { IF fArgs.sign = 1 THEN fArgs.depth
                ELSE IF fArgs.sign = 2 THEN ZeroMap
                ELSE [b \in 1..MaxBatch |-> fArgs.depth[b] * fRand] }
        /\ (fArgs.sign = 0 /\ fRand = 0) => ConditionsUsed \subseteq {ZeroMap}
        /\ (fArgs.sign = 0 /\ fRand = 1) => ConditionsUsed \subseteq {fArgs.depth}
        /\ fpc = "done" =>
              /\ fOut = OutputFed(fArgs.x, fArgs.n_residual_blocks,
                                  IF fArgs.sign = 1 THEN fArgs.depth
                                  ELSE IF fArgs.sign = 2 THEN ZeroMap
                                  ELSE IF fRand = 1 THEN fArgs.depth ELSE ZeroMap)

C3_Witness ==
    /\ fpc = "done" /\ fArgs.sign = 2 /\ fArgs.n_residual_blocks = 2
    /\ fArgs.depth # ZeroMap /\ fRand = 1
    /\ ConditionsUsed = {ZeroMap}

\* ------------------------------------------------------------------ C4
\* C4, as stated: a constructor that fails fails with the ValueError of SPADE or
\* the NotImplementedError of ResnetBlock.
C4_OnlyTwoErrors ==
    cpc = "failed" =>
        \/ cClass = "SPADE" /\ cRes.status = "ValueError"
        \/ cClass \in {"ResnetBlock", "GlobalGenerator2"}
              /\ cRes.status = "NotImplementedError"

\* C4, amended: a constructor that fails fails with one of four errors: SPADE
\* with AssertionError (the config does not start with 'spade'), AttributeError
\* (it starts with 'spade' and the pattern does not match) or ValueError (the
\* parsed normalization is neither instance nor batch); ResnetBlock with
\* NotImplementedError (unrecognized padding); GlobalGenerator2 with
\* AssertionError (n_blocks < 0) or the NotImplementedError of its first block.
C4_FourErrors ==
    /\ cpc = "failed" =>
        \/ /\ cClass = "SPADE"
           /\ cRes.status \in {"AssertionError", "AttributeError", "ValueError"}
           /\ cRes.status = "AssertionError" <=> ~StartsWith(cArgs.config_text, W_spade)
           /\ cRes.status = "ValueError" =>
                 /\ cRes.value \notin {W_instance, W_batch}
                 /\ \E i \in 1..(Len(cArgs.config_text) - Len(cRes.value) + 1) :
                       SubSeq(cArgs.config_text, i, i + Len(cRes.value) - 1) = cRes.value
        \/ /\ cClass = "ResnetBlock"
           /\ cRes.status = "NotImplementedError"
           /\ cArgs.padding_type \notin {"reflect", "replicate", "zero"}
        \/ /\ cClass = "GlobalGenerator2"
           /\ \/ cRes.status = "AssertionError" /\ cArgs.n_blocks < 0
              \/ /\ cRes.status = "NotImplementedError" /\ cArgs.n_blocks >= 1
                 /\ cArgs.padding_type \notin {"reflect", "replicate", "zero"}
    /\ (cClass = "GlobalGenerator2" /\ cArgs.n_blocks < 0) => cpc \in {"init", "failed"}
    /\ (cClass = "SPADE" /\ ~StartsWith(cArgs.config_text, W_spade))
          => cpc \in {"init", "failed"}

C4_Witness ==
    /\ cpc = "failed" /\ cClass = "SPADE" /\ cRes.status = "AttributeError"
    /\ cArgs.config_text = ConfigText(W_spade, <<>>, 3, 3)

\* ------------------------------------------------------------------ C5
\* C5: constructing a SPADE block from 'spade<norm><k>x<k>' with <norm> other than
\* instance or batch raises a ValueError naming the parsed value and builds no block.
C5_UnknownNormRaisesValueError ==
    \A norm \in NormTexts \ {W_instance, W_batch}, k \in 1..MaxKs :
        (cClass = "SPADE" /\ cpc # "init"
            /\ cArgs.config_text = ConfigText(W_spade, norm, k, k))
        => (cpc = "failed" /\ cRes.status = "ValueError" /\ cRes.value = norm
               /\ cRes.obj = <<>>)

\* ------------------------------------------------------------------ C7
RecognizedPadding == {"reflect", "replicate", "zero"}

ConvPositions(block) == {i \in DOMAIN block : block[i].type = "Conv2d"}

\* padding on every side of the convolution at position i of a conv block: its
\* own, plus that of a padding layer right before it
SidePadding(block, i) ==
    block[i].p
    + (IF i > 1 /\ block[i - 1].type \in {"ReflectionPad2d", "ReplicationPad2d"}
       THEN block[i - 1].p ELSE 0)

PaddedByOne(block, padding_type) ==
    /\ Cardinality(ConvPositions(block)) = 2
    /\ \A i \in ConvPositions(block) :
          /\ block[i].k = 3
          /\ SidePadding(block, i) = 1
          /\ block[i].p = (IF padding_type = "zero" THEN 1 ELSE 0)
          /\ padding_type = "reflect" => block[i - 1].type = "ReflectionPad2d"
          /\ padding_type = "replicate" => block[i - 1].type = "ReplicationPad2d"

\* C7: an unrecognized padding_type makes ResnetBlock, and GlobalGenerator2 with
\* n_blocks >= 1, raise NotImplementedError naming it, with no block produced;
\* with reflect, replicate or zero construction succeeds and both 3x3
\* convolutions of every block are padded by 1 on every side.
C7_PaddingModes ==
    /\ (cClass = "ResnetBlock" /\ cpc # "init") =>
          IF cArgs.padding_type \in RecognizedPadding
          THEN cpc = "built" /\ cRes.status = "ok"
               /\ PaddedByOne(cRes.obj, cArgs.padding_type)
          ELSE cpc = "failed" /\ cRes.status = "NotImplementedError"
               /\ cRes.value = cArgs.padding_type /\ cRes.obj = <<>>
    /\ (cClass = "GlobalGenerator2" /\ cArgs.n_blocks >= 1) =>
          IF cArgs.padding_type \in RecognizedPadding
          THEN /\ cpc # "failed"
               /\ \A i \in DOMAIN cModel : cModel[i].type = "ResnetBlock" =>
                      PaddedByOne(cModel[i].sub, cArgs.padding_type)
               /\ cpc = "built" =>
                      Cardinality({i \in DOMAIN cModel : cModel[i].type = "ResnetBlock"})
                          = cArgs.n_blocks
          ELSE /\ cpc # "built"
               /\ \A i \in DOMAIN cModel : cModel[i].type # "ResnetBlock"
               /\ cpc \in {"upsample", "failed"} =>
                      /\ cpc = "failed" /\ cRes.status = "NotImplementedError"
                      /\ cRes.value = cArgs.padding_type /\ cRes.obj = <<>>

C7_Witness ==
    /\ cClass = "GlobalGenerator2" /\ cArgs.n_blocks = 2 /\ cpc = "failed"
    /\ cArgs.padding_type = "circular" /\ cRes.status = "NotImplementedError"

\* ------------------------------------------------------------------ C8
IsGG == cClass = "GlobalGenerator2" /\ cpc \notin {"init", "failed"}

\* the transposed convolutions of the 'downsample' stages (kernel 4) and of the
\* upsample stages (kernel 3), in order; the residual blocks
StagesOf(model, k) ==
    SelectSeq(model, LAMBDA l : l.type = "ConvTranspose2d" /\ l.k = k)
DownStages == StagesOf(cModel, 4)
UpStages   == StagesOf(cModel, 3)
Blocks     == SelectSeq(cModel, LAMBDA l : l.type = "ResnetBlock")

\* 8 halved j times, by integer division
RECURSIVE Halved(_)
Halved(j) == IF j = 0 THEN 8 ELSE Halved(j - 1) \div 2

Max(a, b) == IF a >= b THEN a ELSE b

\* the multiplier an upsample stage starts from: the one left by the downsample
\* stages, then the (floored) one of the stage before
RECURSIVE MultBeforeUp(_)
MultBeforeUp(j) ==
    IF j = 1 THEN Halved(cArgs.n_downsampling) ELSE Max(1, MultBeforeUp(j - 1) \div 2)

\* C8: mult starts at 8 and is halved per 'downsample' stage, a transposed
\* convolution from ngf*mult to (ngf*mult)//2 channels; the residual blocks run at
\* ngf*mult for the multiplier left; every upsample stage outputs
\* ngf*max(1, mult//2) channels, half of its input with a floor of ngf, never less
\* than ngf; with n_UPsampling <= 0 there are n_downsampling upsample stages.
C8_MultiplierSequence ==
    IsGG =>
        /\ \A j \in DOMAIN DownStages :
              /\ DownStages[j].cin = cArgs.ngf * Halved(j - 1)
              /\ DownStages[j].cout = (cArgs.ngf * Halved(j - 1)) \div 2
        /\ cpc = "downsample" => cMult = Halved(Len(DownStages))
        /\ cpc # "downsample" => Len(DownStages) = cArgs.n_downsampling
        /\ \A j \in DOMAIN Blocks :
              Blocks[j].cin = cArgs.ngf * Halved(cArgs.n_downsampling)
        /\ \A j \in DOMAIN UpStages :
              /\ UpStages[j].cout = cArgs.ngf * Max(1, MultBeforeUp(j) \div 2)
              /\ UpStages[j].cout = Max(cArgs.ngf, UpStages[j].cin \div 2)
              /\ UpStages[j].cout >= cArgs.ngf
        /\ cpc = "built" =>
              Len(UpStages) = (IF cArgs.n_UPsampling <= 0 THEN cArgs.n_downsampling
                               ELSE cArgs.n_UPsampling)

C8_Witness ==
    /\ IsGG /\ cpc = "built" /\ cArgs.n_downsampling = 4 /\ cArgs.n_UPsampling <= 0
    /\ cArgs.ngf = 2 /\ Len(UpStages) = 4 /\ UpStages[1].cout = 2
    /\ DownStages[4].cout = 1

\* ------------------------------------------------------------------ C9
\* the channel count after the layers of a list, from c channels; 0 once a layer
\* declares another input channel count than it receives
RECURSIVE ChannelsAfter(_, _)
ChannelsAfter(model, c) ==
    IF model = <<>> \/ c = 0 THEN c
    ELSE LET l == Head(model)
         IN IF l.type \in {"Conv2d", "ConvTranspose2d", "norm_layer", "ResnetBlock"}
            THEN IF l.cin = c THEN ChannelsAfter(Tail(model), l.cout) ELSE 0
            ELSE ChannelsAfter(Tail(model), c)

\* C9: the layer list GlobalGenerator2 builds is channel-consistent for every
\* configuration: every layer declares the channel count the layer before it
\* outputs, down to the ngf channels of the output projection.
C9_ChannelConsistent ==
    (cClass = "GlobalGenerator2" /\ cpc = "built")
        => ChannelsAfter(cModel, cArgs.input_nc) = cArgs.output_nc

\* ------------------------------------------------------------------ C6
\* what forward computes, by input, mode and dropout mask only
BackboneTo6b(x) ==
    Through(<<Entry("input", <<x>>)>>,
            <<"Conv2d_1a_3x3", "Conv2d_2a_3x3", "Conv2d_2b_3x3", "max_pool2d",
              "Conv2d_3b_1x1", "Conv2d_4a_3x3", "max_pool2d", "Mixed_5b", "Mixed_5c",
              "Mixed_5d", "Mixed_6a", "Mixed_6b">>)
BackboneTo6e(x) == Through(BackboneTo6b(x), <<"Mixed_6c", "Mixed_6d", "Mixed_6e">>)
PooledOf(x) ==
    Through(BackboneTo6e(x), <<"Mixed_7a", "Mixed_7b", "Mixed_7c", "adaptive_avg_pool2d">>)
LogitsOf(x, isTrain, mask) ==
    Through(IF isTrain THEN Append(PooledOf(x), Entry("dropout", <<mask>>))
            ELSE PooledOf(x),
            <<"flatten", "fc">>)

\* C6: every_feat changes the second returned value only: the first is the
\* logits of the input either way; the second is feat21 (the activation after
\* Mixed_6b) with every_feat, and otherwise the auxiliary logits when isTrain and
\* use_aux, None (<<>>) when not.
C6_EveryFeatKeepsLogits ==
    ipc = "returned" =>
        \E x \in {"x1", "x2"}, mask \in 0..MaxMask :
            /\ iRet[1] = LogitsOf(x, iArgs.isTrain, mask)
            /\ iRet[2] = (IF iArgs.every_feat THEN BackboneTo6b(x)
                          ELSE IF iArgs.isTrain /\ iArgs.use_aux
                               THEN Append(BackboneTo6e(x), Entry("AuxLogits", <<>>))
                          ELSE <<>>)

C6_Witness ==
    /\ ipc = "returned" /\ iArgs.every_feat /\ iArgs.isTrain /\ iArgs.use_aux
    /\ iRet[2] = BackboneTo6b("x2") /\ iAux # <<>> /\ iRet[1] = iX

\* ------------------------------------------------------------------ C10
Heads == {"AuxLogits.fc", "fc"}

\* C10: after construction a child's parameters are frozen iff freeze and
\* pretrain and the child is one of the first 17 (indices 0..16); children from
\* index 17 on are never frozen, nothing is frozen without freeze and pretrain,
\* and the two replaced heads are trainable in every configuration.
C10_FrozenPrefix ==
    ipc # "idle" =>
        /\ ipc # "freeze" =>
              /\ \A i \in DOMAIN Children(iArgs.layout) :
                    \A p \in ParametersOf(Children(iArgs.layout)[i]) \ Heads :
                        ~iGrad[p] <=> (iArgs.freeze /\ iArgs.pretrain /\ i - 1 < 17)
              /\ \A p \in Heads : iGrad[p]
        /\ \A i \in DOMAIN Children(iArgs.layout) :
              i - 1 >= 17 => \A p \in ParametersOf(Children(iArgs.layout)[i]) : iGrad[p]
        /\ ~(iArgs.freeze /\ iArgs.pretrain) => \A p \in DOMAIN iGrad : iGrad[p]

C10_Witness ==
    /\ ipc = "constructed" /\ iArgs.freeze /\ iArgs.pretrain
    /\ iArgs.layout = "module-pooling"
    /\ ~iGrad["Mixed_7a"] /\ ~iGrad["AuxLogits"] /\ iGrad["Mixed_7b"]
    /\ iGrad["AuxLogits.fc"] /\ iGrad["fc"]

====
